---- MODULE Spec2Model ----
(***************************************************************************)
(* CircuitSimulator: the expression evaluator (eval_node, wire_value), the *)
(* dependency closure (gather_from_expr, closure_from_targets) and the     *)
(* cycle-stepping driver (simulate) of simulate.cpp, over the Wire and     *)
(* ExprNode structures of wire.h and operations.h.                         *)
(***************************************************************************)
EXTENDS Integers, Sequences, FiniteSets, TLC

VARIABLES
    wires,        \* Wire objects: identity -> [name, committed_value, comb_expr, next_expr]
    pc,           \* position of the program: "build", "eval", "next", "commit",
                  \* "finish", "done"; "crashed" (the stack overflowed) and
                  \* "trapped" (an arithmetic instruction raised) end the process
    targets,      \* simulate's argument: a sequence of Wire pointers (0 is nullptr)
    cycles,       \* simulate's argument
    restore_state,\* simulate's argument
    all_wires,    \* the vector closure_from_targets returned, in its iteration order
    saved,        \* simulate's local map saved
    history,      \* simulate's local map history, keyed by name
    t,            \* simulate's loop counter
    ctx,          \* the EvalContext of the current cycle
    next_values,  \* simulate's local map next_values of the current cycle
    assigned,     \* number of operator= / operator<< calls made by the builder
    result,       \* what simulate returned: the entries of history in key order
    probe,        \* the expression root handed to eval_node on its own
    out,          \* what eval_node produced for probe
    pre,          \* history variable: the committed values when simulate was called
    starts,       \* history variable: the committed values at the start of each cycle
    returned      \* the caller's record of its earlier calls of simulate: what
                  \* each returned, its cycles, and the committed values it met

vars == <<wires, pc, targets, cycles, restore_state, all_wires, saved, history,
          t, ctx, next_values, assigned, result, probe, out, pre, starts, returned>>

----------------------------------------------------------------------------
(* Bounds of the model.                                                    *)

\* largest value of simulate's cycles argument
MaxCycles == 2
\* largest length of simulate's targets vector
MaxTargets == 2
\* number of definitions the builder assigns before simulate is called
MaxAssign == 2
\* number of calls of simulate a caller makes one after the other
MaxCalls == 2
\* width of the modelled machine word (long long has 64 bits; the model keeps
\* two's-complement arithmetic and scales the width down)
WordBits == 8

\* the Wire objects constructed so far (Wire::registry()), by identity
Wires == DOMAIN wires
\* the null Wire pointer
NullWire == 0

----------------------------------------------------------------------------
(* long long: two's-complement words of WordBits bits.                     *)

RECURSIVE Pow2(_)
Pow2(n) == IF n = 0 THEN 1 ELSE 2 * Pow2(n - 1)

Modulus == Pow2(WordBits)
MinWord == -(Modulus \div 2)
MaxWord == (Modulus \div 2) - 1

\* the value a two's-complement register of WordBits bits holds for x
Wrap(x) == ((x - MinWord) % Modulus) + MinWord

\* the unsigned reading of a word, and back
ToUnsigned(x) == x % Modulus
FromUnsigned(u) == Wrap(u)

Abs(x) == IF x < 0 THEN -x ELSE x

\* C++ integer division truncates toward zero; the remainder takes the sign
\* of the dividend
TruncDiv(x, d) ==
    LET q == Abs(x) \div Abs(d)
    IN  IF (x < 0) = (d < 0) THEN q ELSE -q
TruncMod(x, d) == x - d * TruncDiv(x, d)

RECURSIVE BitOp(_, _, _, _)
\* bitwise combination of two unsigned words, bit by bit
BitOp(op, u, v, n) ==
    IF n = 0 THEN 0
    ELSE LET a == u % 2
             b == v % 2
             r == CASE op = "BitAnd" -> IF a = 1 /\ b = 1 THEN 1 ELSE 0
                    [] op = "BitOr"  -> IF a = 1 \/ b = 1 THEN 1 ELSE 0
                    [] op = "BitXor" -> IF a # b THEN 1 ELSE 0
         IN  r + 2 * BitOp(op, u \div 2, v \div 2, n - 1)

\* arithmetic right shift (the sign is kept), as the compilers implement >>
ShiftRight(x, s) == (x - (x % Pow2(s))) \div Pow2(s)

----------------------------------------------------------------------------
(* ExprNode (operations.h): a node is a record with its op and the fields  *)
(* that op uses; NullExpr is the empty shared_ptr.                         *)

NullExpr == [op |-> "null"]
Const(k) == [op |-> "Constant", constant_value |-> k]
WireRef(w) == [op |-> "WireRef", wire |-> w]
make_unary(op, x) == [op |-> op, a |-> x]
make_binary(op, x, y) == [op |-> op, a |-> x, b |-> y]
make_select(cond, th, el) == [op |-> "Select", a |-> cond, b |-> th, c |-> el]

UnaryOps == {"BitNot", "Neg", "LogNot"}
\* binary operators whose two operands are both always evaluated
StrictOps == {"Add", "Sub", "Mul", "BitAnd", "BitOr", "BitXor", "Shl", "Shr",
              "Eq", "Ne", "Lt", "Le", "Gt", "Ge"}
BinaryOps == StrictOps \cup {"Div", "Mod", "LogAnd", "LogOr"}

\* the builds there can be.  What the language leaves undefined they settle:
\* the division whose quotient is not representable traps or wraps, an
\* out-of-range shift amount is masked or shifts everything out, and an
\* addition, subtraction, multiplication or negation that overflows wraps or,
\* in a build with overflow checks, traps
Hardware == {[divtrap |-> TRUE, shiftmask |-> TRUE, ovftrap |-> FALSE],
             [divtrap |-> FALSE, shiftmask |-> FALSE, ovftrap |-> FALSE],
             [divtrap |-> TRUE, shiftmask |-> TRUE, ovftrap |-> TRUE]}

\* truthy without the test: the value itself
truthy_identity(v) == v

truthy(v) == IF v # 0 THEN 1 ELSE 0

\* x << s and x >> s; an amount outside 0..WordBits-1 is undefined behaviour
\* and gives what the target's shift instruction gives
ShiftAmount(hw, s) == IF hw.shiftmask THEN s % WordBits ELSE s % 256
Shl(hw, x, s) ==
    LET k == IF s \in 0..(WordBits - 1) THEN s ELSE ShiftAmount(hw, s)
    IN  IF k >= WordBits THEN 0 ELSE FromUnsigned((ToUnsigned(x) * Pow2(k)) % Modulus)
Shr(hw, x, s) ==
    LET k == IF s \in 0..(WordBits - 1) THEN s ELSE ShiftAmount(hw, s)
    IN  IF k >= WordBits THEN (IF x < 0 THEN -1 ELSE 0) ELSE ShiftRight(x, k)

\* the signed result of the operator is not a word: +, -, * and unary - on
\* long long have undefined behaviour then
Overflows(op, x, y) ==
    CASE op = "Add" -> x + y \notin MinWord..MaxWord
      [] op = "Sub" -> x - y \notin MinWord..MaxWord
      [] op = "Mul" -> x * y \notin MinWord..MaxWord
      [] op = "Neg" -> -x \notin MinWord..MaxWord
      [] OTHER -> FALSE

\* the value of a unary node applied to an operand value
ApplyUnary(op, x) ==
    CASE op = "BitNot" -> -x - 1
      [] op = "Neg"    -> Wrap(-x)
      [] op = "LogNot" -> IF truthy(x) = 1 THEN 0 ELSE 1

\* the value of a strict binary node applied to two operand values
ApplyStrict(hw, op, x, y) ==
    CASE op = "Add" -> Wrap(x + y)
      [] op = "Sub" -> Wrap(x - y)
      [] op = "Mul" -> Wrap(x * y)
      [] op \in {"BitAnd", "BitOr", "BitXor"} ->
            FromUnsigned(BitOp(op, ToUnsigned(x), ToUnsigned(y), WordBits))
      [] op = "Shl" -> Shl(hw, x, y)
      [] op = "Shr" -> Shr(hw, x, y)
      [] op = "Eq"  -> IF x = y THEN 1 ELSE 0
      [] op = "Ne"  -> IF x # y THEN 1 ELSE 0
      [] op = "Lt"  -> IF x < y THEN 1 ELSE 0
      [] op = "Le"  -> IF x <= y THEN 1 ELSE 0
      [] op = "Gt"  -> IF x > y THEN 1 ELSE 0
      [] op = "Ge"  -> IF x >= y THEN 1 ELSE 0

----------------------------------------------------------------------------
(* EvalContext and the evaluator (simulate.cpp).                           *)

\* a fresh EvalContext.  evals and hits are history fields: per wire, the
\* number of evaluations of its combinational root made in this context, and
\* the number of times the cache answered for it
EvalContext ==
    [comb_cache |-> <<>>, evals |-> [w \in Wires |-> 0], hits |-> [w \in Wires |-> 0]]

\* map[k] = v on a map held as a function
Put(map, k, v) == [x \in (DOMAIN map) \cup {k} |-> IF x = k THEN v ELSE map[x]]

\* where the program is after a step of a cycle that ended with st
AfterStep(st, then) ==
    CASE st = "ok" -> then
      [] st = "trap" -> "trapped"
      [] OTHER -> "crashed"

\* what an evaluation produced: st is "ok" (v is the value), "overflow" (the
\* recursion never returned: the stack overflowed) or "trap" (the division
\* instruction raised)
Result(v, c, st) == [v |-> v, ctx |-> c, st |-> st]

RECURSIVE eval_node(_, _, _, _), wire_value(_, _, _, _), eval_strict(_, _, _, _),
          eval_div(_, _, _, _), eval_logical(_, _, _, _), eval_unary(_, _, _, _),
          eval_select(_, _, _, _)

\* wire_value without the cache lookup: every reference evaluates the root
wire_value_uncached(m, w, c, stack) ==
    IF m.wires[w].comb_expr # NullExpr
    THEN IF w \in stack
         THEN Result(0, c, "overflow")
         ELSE LET c1 == [c EXCEPT !.evals[w] = @ + 1]
                  r == eval_node(m, m.wires[w].comb_expr, c1, stack \cup {w})
              IN  IF r.st # "ok" THEN r
                  ELSE Result(r.v, [r.ctx EXCEPT !.comb_cache = Put(@, w, r.v)], "ok")
    ELSE Result(m.wires[w].committed_value, c, "ok")

\* wire_value with the registered definition taking precedence: a wire that
\* has one is read as its committed value
wire_value_register_first(m, w, c, stack) ==
    IF m.wires[w].comb_expr # NullExpr /\ m.wires[w].next_expr = NullExpr
    THEN IF w \in DOMAIN c.comb_cache
         THEN Result(c.comb_cache[w], [c EXCEPT !.hits[w] = @ + 1], "ok")
         ELSE IF w \in stack
              THEN Result(0, c, "overflow")
              ELSE LET c1 == [c EXCEPT !.evals[w] = @ + 1]
                       r == eval_node(m, m.wires[w].comb_expr, c1, stack \cup {w})
                   IN  IF r.st # "ok" THEN r
                       ELSE Result(r.v, [r.ctx EXCEPT !.comb_cache = Put(@, w, r.v)], "ok")
    ELSE Result(m.wires[w].committed_value, c, "ok")

\* m is the machine: m.wires the Wire objects, m.hw the build target.  stack
\* is the set of wires whose combinational root is being evaluated further up
\* the call stack: entering one of them again repeats the same evaluation
\* without end (the cache holds no entry for it before it returns).
wire_value(m, w, c, stack) ==
    IF m.wires[w].comb_expr # NullExpr
    THEN IF w \in DOMAIN c.comb_cache
         THEN Result(c.comb_cache[w], [c EXCEPT !.hits[w] = @ + 1], "ok")
         ELSE IF w \in stack
              THEN Result(0, c, "overflow")
              ELSE LET c1 == [c EXCEPT !.evals[w] = @ + 1]
                       r == eval_node(m, m.wires[w].comb_expr, c1, stack \cup {w})
                   IN  IF r.st # "ok" THEN r
                       ELSE Result(r.v, [r.ctx EXCEPT !.comb_cache = Put(@, w, r.v)], "ok")
    ELSE Result(m.wires[w].committed_value, c, "ok")

\* a strict binary node that hands on its left operand: the operator and the
\* right operand are dropped
eval_strict_left_only(m, n, c, stack) == eval_node(m, n.a, c, stack)

\* Add ... Ge except Div, Mod, LogAnd, LogOr: both operands, then the operator.
\* The operands are evaluated left then right here; C++ leaves their order
\* open, and neither the value nor the cache depends on it.
eval_strict(m, n, c, stack) ==
    LET ra == eval_node(m, n.a, c, stack)
    IN  IF ra.st # "ok" THEN ra
        ELSE LET rb == eval_node(m, n.b, ra.ctx, stack)
             IN  IF rb.st # "ok" THEN rb
                 ELSE IF m.hw.ovftrap /\ Overflows(n.op, ra.v, rb.v)
                      THEN Result(0, rb.ctx, "trap")
                      ELSE Result(ApplyStrict(m.hw, n.op, ra.v, rb.v), rb.ctx, "ok")

\* Div and Mod without the test for a zero divisor: the division instruction
\* raises
eval_div_unguarded(m, n, c, stack) ==
    LET rd == eval_node(m, n.b, c, stack)
    IN  IF rd.st # "ok" THEN rd
        ELSE LET ra == eval_node(m, n.a, rd.ctx, stack)
             IN  IF ra.st # "ok" THEN ra
                 ELSE IF rd.v = 0 \/ (ra.v = MinWord /\ rd.v = -1)
                      THEN Result(0, ra.ctx, "trap")
                      ELSE Result(IF n.op = "Div" THEN TruncDiv(ra.v, rd.v)
                                  ELSE TruncMod(ra.v, rd.v), ra.ctx, "ok")

\* Div and Mod: "d = eval_node(n->b); return d == 0 ? 0 : eval_node(n->a) / d"
eval_div(m, n, c, stack) ==
    LET rd == eval_node(m, n.b, c, stack)
    IN  IF rd.st # "ok" THEN rd
        ELSE IF rd.v = 0 THEN Result(0, rd.ctx, "ok")
        ELSE LET ra == eval_node(m, n.a, rd.ctx, stack)
             IN  IF ra.st # "ok" THEN ra
                 ELSE IF ra.v = MinWord /\ rd.v = -1
                      THEN \* the quotient is not representable: undefined behaviour
                           IF m.hw.divtrap THEN Result(0, ra.ctx, "trap")
                           ELSE Result(IF n.op = "Div" THEN MinWord ELSE 0, ra.ctx, "ok")
                      ELSE Result(IF n.op = "Div" THEN TruncDiv(ra.v, rd.v)
                                  ELSE TruncMod(ra.v, rd.v), ra.ctx, "ok")

\* LogAnd and LogOr: && and || evaluate their right operand only if needed
eval_logical(m, n, c, stack) ==
    LET ra == eval_node(m, n.a, c, stack)
    IN  IF ra.st # "ok" THEN ra
        ELSE IF n.op = "LogAnd" /\ truthy(ra.v) = 0 THEN Result(0, ra.ctx, "ok")
        ELSE IF n.op = "LogOr" /\ truthy(ra.v) = 1 THEN Result(1, ra.ctx, "ok")
        ELSE LET rb == eval_node(m, n.b, ra.ctx, stack)
             IN  IF rb.st # "ok" THEN rb
                 ELSE Result(truthy(rb.v), rb.ctx, "ok")

\* BitNot, Neg, LogNot
eval_unary(m, n, c, stack) ==
    LET ra == eval_node(m, n.a, c, stack)
    IN  IF ra.st # "ok" THEN ra
        ELSE IF m.hw.ovftrap /\ Overflows(n.op, ra.v, 0)
        THEN Result(0, ra.ctx, "trap")
        ELSE Result(ApplyUnary(n.op, ra.v), ra.ctx, "ok")

\* Select with both branches evaluated before one is chosen
eval_select_eager(m, n, c, stack) ==
    LET ra == eval_node(m, n.a, c, stack)
    IN  IF ra.st # "ok" THEN ra
        ELSE LET rb == eval_node(m, n.b, ra.ctx, stack)
             IN  IF rb.st # "ok" THEN rb
                 ELSE LET rc == eval_node(m, n.c, rb.ctx, stack)
                      IN  IF rc.st # "ok" THEN rc
                          ELSE Result(IF truthy(ra.v) = 1 THEN rb.v ELSE rc.v, rc.ctx, "ok")

\* Select with its branches exchanged
eval_select_swapped(m, n, c, stack) ==
    LET ra == eval_node(m, n.a, c, stack)
    IN  IF ra.st # "ok" THEN ra
        ELSE IF truthy(ra.v) = 1 THEN eval_node(m, n.c, ra.ctx, stack)
        ELSE eval_node(m, n.b, ra.ctx, stack)

\* Select: "truthy(eval_node(n->a)) ? eval_node(n->b) : eval_node(n->c)"
eval_select(m, n, c, stack) ==
    LET ra == eval_node(m, n.a, c, stack)
    IN  IF ra.st # "ok" THEN ra
        ELSE IF truthy(ra.v) = 1 THEN eval_node(m, n.b, ra.ctx, stack)
        ELSE eval_node(m, n.c, ra.ctx, stack)

eval_node(m, n, c, stack) ==
    CASE n.op = "Constant" -> Result(n.constant_value, c, "ok")
      [] n.op = "WireRef" -> wire_value(m, n.wire, c, stack)
      [] n.op \in StrictOps -> eval_strict(m, n, c, stack)
      [] n.op \in {"Div", "Mod"} -> eval_div(m, n, c, stack)
      [] n.op \in {"LogAnd", "LogOr"} -> eval_logical(m, n, c, stack)
      [] n.op \in UnaryOps -> eval_unary(m, n, c, stack)
      [] n.op = "Select" -> eval_select(m, n, c, stack)
      [] OTHER -> Result(0, c, "ok")

----------------------------------------------------------------------------
(* Dependency closure (simulate.cpp).                                      *)

RECURSIVE gather_from_expr(_, _, _)
\* gather_from_expr without "if (n->c) gather_from_expr(n->c, wires)"
gather_skip_else(W, n, set) ==
    IF n = NullExpr THEN set
    ELSE IF n.op = "WireRef" /\ n.wire # NullWire
    THEN IF n.wire \notin set
         THEN LET s1 == gather_from_expr(W, W[n.wire].comb_expr, set \cup {n.wire})
              IN  gather_from_expr(W, W[n.wire].next_expr, s1)
         ELSE set
    ELSE LET sa == IF "a" \in DOMAIN n THEN gather_from_expr(W, n.a, set) ELSE set
         IN  IF "b" \in DOMAIN n THEN gather_from_expr(W, n.b, sa) ELSE sa

\* W: the Wire objects; set: the unordered_set being filled
gather_from_expr(W, n, set) ==
    IF n = NullExpr THEN set
    ELSE IF n.op = "WireRef" /\ n.wire # NullWire
    THEN IF n.wire \notin set
         THEN LET s1 == gather_from_expr(W, W[n.wire].comb_expr, set \cup {n.wire})
              IN  gather_from_expr(W, W[n.wire].next_expr, s1)
         ELSE set
    ELSE LET sa == IF "a" \in DOMAIN n THEN gather_from_expr(W, n.a, set) ELSE set
             sb == IF "b" \in DOMAIN n THEN gather_from_expr(W, n.b, sa) ELSE sa
         IN  IF "c" \in DOMAIN n THEN gather_from_expr(W, n.c, sb) ELSE sb

RECURSIVE GatherSnapshot(_, _, _)
\* the for loop over snapshot of closure_from_targets; todo is what is left of
\* the snapshot (its order does not change the set reached)
GatherSnapshot(W, todo, set) ==
    IF todo = {} THEN set
    ELSE LET w == CHOOSE x \in todo : TRUE
             s1 == gather_from_expr(W, W[w].comb_expr, set)
             s2 == gather_from_expr(W, W[w].next_expr, s1)
         IN  GatherSnapshot(W, todo \ {w}, s2)

RECURSIVE ClosureLoop(_, _, _)
\* the while (prev != set.size()) loop
ClosureLoop(W, set, prev) ==
    IF prev = Cardinality(set) THEN set
    ELSE ClosureLoop(W, GatherSnapshot(W, set, set), Cardinality(set))

\* the targets alone, their definitions never scanned
closure_targets_only(W, tg) == {tg[i] : i \in DOMAIN tg} \ {NullWire}

\* the set closure_from_targets collects (it returns it as a vector, in the
\* unordered_set's iteration order)
closure_from_targets(W, tg) ==
    ClosureLoop(W, {tg[i] : i \in DOMAIN tg} \ {NullWire}, 0)

\* the sequences that list each element of S once: the orders in which an
\* unordered container of S can be iterated
Orders(S) ==
    {o \in [1..Cardinality(S) -> S] : \A i, j \in DOMAIN o : o[i] = o[j] => i = j}

----------------------------------------------------------------------------
(* The steps of simulate (simulate.cpp).                                   *)

CommittedValues(W) == [w \in Wires |-> W[w].committed_value]

RECURSIVE evaluate_loop(_, _, _, _, _)
\* the loop with one value recorded per name and cycle: a wire whose name an
\* earlier wire of the walk has is evaluated and not recorded
evaluate_loop_once_per_name(m, order, i, c, hist) ==
    IF i > Len(order) THEN [st |-> "ok", ctx |-> c, history |-> hist]
    ELSE LET w == order[i]
             r == wire_value(m, w, c, {})
             seen == \E j \in 1..(i - 1) : m.wires[order[j]].name = m.wires[w].name
         IN  IF r.st # "ok" THEN [st |-> r.st, ctx |-> r.ctx, history |-> hist]
             ELSE evaluate_loop(m, order, i + 1, r.ctx,
                      IF seen THEN hist
                      ELSE [hist EXCEPT ![m.wires[w].name] = Append(@, r.v)])

\* the loop recording w->committed_value instead of wire_value(w, ctx)
evaluate_loop_records_committed(m, order, i, c, hist) ==
    IF i > Len(order) THEN [st |-> "ok", ctx |-> c, history |-> hist]
    ELSE LET w == order[i]
             r == wire_value(m, w, c, {})
         IN  IF r.st # "ok" THEN [st |-> r.st, ctx |-> r.ctx, history |-> hist]
             ELSE evaluate_loop(m, order, i + 1, r.ctx,
                      [hist EXCEPT ![m.wires[w].name] =
                                       Append(@, m.wires[w].committed_value)])

\* the loop "for w in all_wires: v = wire_value(w, ctx);
\* history[w->name].push_back(v)", from position i on; it stops where an
\* evaluation does not return
evaluate_loop(m, order, i, c, hist) ==
    IF i > Len(order) THEN [st |-> "ok", ctx |-> c, history |-> hist]
    ELSE LET w == order[i]
             r == wire_value(m, w, c, {})
         IN  IF r.st # "ok" THEN [st |-> r.st, ctx |-> r.ctx, history |-> hist]
             ELSE evaluate_loop(m, order, i + 1, r.ctx,
                      [hist EXCEPT ![m.wires[w].name] = Append(@, r.v)])

RECURSIVE next_values_loop(_, _, _, _, _)
\* the loop with each next value written to its wire as soon as it is
\* computed: a sequential update instead of the clock edge
next_values_loop_sequential(m, order, i, c, nv) ==
    IF i > Len(order) THEN [st |-> "ok", ctx |-> c, next_values |-> nv]
    ELSE LET w == order[i]
         IN  IF m.wires[w].next_expr # NullExpr
             THEN LET r == eval_node(m, m.wires[w].next_expr, c, {})
                      m1 == [m EXCEPT !.wires[w].committed_value = r.v]
                  IN  IF r.st # "ok"
                      THEN [st |-> r.st, ctx |-> r.ctx, next_values |-> nv]
                      ELSE next_values_loop(m1, order, i + 1, r.ctx, Put(nv, w, r.v))
             ELSE next_values_loop(m, order, i + 1, c, nv)

\* the loop "for w in all_wires: if (w->next_expr) next_values[w] =
\* eval_node(w->next_expr, ctx)", from position i on
next_values_loop(m, order, i, c, nv) ==
    IF i > Len(order) THEN [st |-> "ok", ctx |-> c, next_values |-> nv]
    ELSE LET w == order[i]
         IN  IF m.wires[w].next_expr # NullExpr
             THEN LET r == eval_node(m, m.wires[w].next_expr, c, {})
                  IN  IF r.st # "ok"
                      THEN [st |-> r.st, ctx |-> r.ctx, next_values |-> nv]
                      ELSE next_values_loop(m, order, i + 1, r.ctx, Put(nv, w, r.v))
             ELSE next_values_loop(m, order, i + 1, c, nv)

\* a loop that also resets every wire the map has no entry for
write_back_clearing(W, map) ==
    [w \in Wires |-> [W[w] EXCEPT !.committed_value =
                                     IF w \in DOMAIN map THEN map[w] ELSE 0]]

\* a loop over the map that writes nothing
write_back_none(W, map) == W

\* "for kv in map: kv.first->committed_value = kv.second": the keys are
\* distinct wires, so the order of the writes is immaterial
write_back(W, map) ==
    [w \in Wires |-> IF w \in DOMAIN map
                     THEN [W[w] EXCEPT !.committed_value = map[w]]
                     ELSE W[w]]

\* the context declared before the cycle loop: the cache outlives the cycle
cycle_context_kept(old) == old

\* "EvalContext ctx;" inside the cycle loop: each cycle starts from an empty
\* context, whatever the last cycle's was
cycle_context(old) == EvalContext

\* a commit that is never made
commit_dropped(W, nv) == W

\* step (d): the commit of next_values
commit(W, nv) == write_back(W, nv)

\* a restore that is never made
restore_skipped(W, rs, sv) == W

\* "if (restore_state) for kv in saved: ..." after the cycle loop
restore(W, rs, sv) == IF rs THEN write_back(W, sv) ELSE W

\* a snapshot of default values instead of the committed ones
snapshot_defaults(W, rs, order) ==
    IF rs THEN [w \in {order[i] : i \in DOMAIN order} |-> 0] ELSE <<>>

\* "if (restore_state) for w in all_wires: saved[w] = w->committed_value"
snapshot(W, rs, order) ==
    IF rs THEN [w \in {order[i] : i \in DOMAIN order} |-> W[w].committed_value]
    ELSE <<>>

----------------------------------------------------------------------------
(* Names and std::map (simulate.cpp, wire.h).  A name is the sequence of   *)
(* its character codes; std::map<std::string, ...> keeps its keys in       *)
(* lexicographic order of these.                                           *)

RECURSIVE LexLess(_, _)
\* std::string's operator<
LexLess(s, u) ==
    IF u = <<>> THEN FALSE
    ELSE IF s = <<>> THEN TRUE
    ELSE IF Head(s) # Head(u) THEN Head(s) < Head(u)
    ELSE LexLess(Tail(s), Tail(u))

RECURSIVE MapEntries(_, _)
\* the entries with the comparison turned around
MapEntries_reversed(map, keys) ==
    IF keys = {} THEN <<>>
    ELSE LET k == CHOOSE x \in keys : \A y \in keys \ {x} : LexLess(y, x)
         IN  <<[name |-> k, values |-> map[k]]>> \o MapEntries(map, keys \ {k})

\* the entries of a std::map in the order its iteration gives them, from the
\* keys in keys on
MapEntries(map, keys) ==
    IF keys = {} THEN <<>>
    ELSE LET k == CHOOSE x \in keys : \A y \in keys \ {x} : LexLess(x, y)
         IN  <<[name |-> k, values |-> map[k]]>> \o MapEntries(map, keys \ {k})

----------------------------------------------------------------------------
(* The circuits the builder makes (wire.h, operations.h, main.cpp).        *)

\* the three wires the builder's statements are about
X == WireRef(1)
Y == WireRef(2)
Z == WireRef(3)

\* Wire(name, init): the names are "c", "ab", "a" (pairwise distinct, and not
\* in the order of construction) or "b", "a", "b" (x and z share a name)
DistinctNames == <<(<<99>>), (<<97, 98>>), (<<97>>)>>
SharedNames == <<(<<98>>), (<<97>>), (<<98>>)>>

\* the init argument of the constructor (0 is its default)
InitValue(w) == CASE w = 1 -> -7 [] w = 3 -> 2 [] OTHER -> 0

\* the statements a builder writes with operator= ("comb") and operator<<
\* ("next")
Statements == {
    \* enable = 1
    [wire |-> 1, kind |-> "comb", expr |-> Const(1)],
    \* value << If(enable, value + 1, value)
    [wire |-> 2, kind |-> "next",
     expr |-> make_select(X, make_binary("Add", Y, Const(1)), Y)],
    \* x << y and y << x
    [wire |-> 1, kind |-> "next", expr |-> Y],
    [wire |-> 2, kind |-> "next", expr |-> X],
    \* sum = a + b
    [wire |-> 3, kind |-> "comb", expr |-> make_binary("Add", X, Y)],
    \* acc << acc + sum
    [wire |-> 2, kind |-> "next", expr |-> make_binary("Add", Y, Z)],
    \* w = w + 1, the combinational loop
    [wire |-> 3, kind |-> "comb", expr |-> make_binary("Add", Z, Const(1))],
    \* x = If(1, 2, z / 0)
    [wire |-> 1, kind |-> "comb",
     expr |-> make_select(Const(1), Const(2), make_binary("Div", Z, Const(0)))],
    \* x = If(z, y, z / (z - 2)) and y = If(z, 4, x): each refers to the other
    [wire |-> 1, kind |-> "comb",
     expr |-> make_select(Z, Y, make_binary("Div", Z, make_binary("Sub", Z, Const(2))))],
    [wire |-> 2, kind |-> "comb", expr |-> make_select(Z, Const(4), X)]
}

\* the values of simulate's targets argument: up to MaxTargets pointers to
\* wires, in any order and with repetitions; a null pointer, if there is one,
\* comes first
WireLists(k) == UNION {[1..n -> Wires] : n \in 0..k}
TargetLists ==
    WireLists(MaxTargets) \cup {<<NullWire>> \o l : l \in WireLists(MaxTargets - 1)}

----------------------------------------------------------------------------
(* The state machine.                                                      *)

NoMap == <<>>

\* the wires as their constructors leave them, named by names
Constructed(names) ==
    [w \in DOMAIN names |-> [name |-> names[w], committed_value |-> InitValue(w),
                      comb_expr |-> NullExpr, next_expr |-> NullExpr]]

NoResult == Result(0, EvalContext, "none")

InitWith(W, at, root) ==
    /\ wires = W
    /\ pc = at
    /\ probe = root
    /\ out = NoResult
    /\ targets = <<>>
    /\ cycles = 0
    /\ restore_state = TRUE
    /\ all_wires = <<>>
    /\ saved = NoMap
    /\ history = NoMap
    /\ t = 0
    /\ ctx = EvalContext
    /\ next_values = NoMap
    /\ assigned = 0
    /\ result = <<>>
    /\ pre = [w \in Wires |-> 0]
    /\ starts = <<>>
    /\ returned = <<>>

\* every wire has its own name
Init == InitWith(Constructed(DistinctNames), "build", NullExpr)

\* x and z share a name
InitShared == InitWith(Constructed(SharedNames), "build", NullExpr)

\* Wire::operator=(const Expr&): the combinational definition, last write wins
AssignComb(w, e) ==
    /\ pc = "build"
    /\ assigned < MaxAssign
    /\ wires' = [wires EXCEPT ![w].comb_expr = e]
    /\ assigned' = assigned + 1
    /\ UNCHANGED <<pc, targets, cycles, restore_state, all_wires, saved, history, t,
                   ctx, next_values, result, probe, out, pre, starts, returned>>

\* Wire::operator<<(const Expr&): the registered definition, last write wins
AssignNext(w, e) ==
    /\ pc = "build"
    /\ assigned < MaxAssign
    /\ wires' = [wires EXCEPT ![w].next_expr = e]
    /\ assigned' = assigned + 1
    /\ UNCHANGED <<pc, targets, cycles, restore_state, all_wires, saved, history, t,
                   ctx, next_values, result, probe, out, pre, starts, returned>>

\* simulate(targets, cycles, restore_state) up to its cycle loop: the closure,
\* the snapshot in saved, and the empty histories
Call(tg, cyc, rs) ==
    /\ targets' = tg
    /\ cycles' = cyc
    /\ restore_state' = rs
    /\ \E order \in Orders(closure_from_targets(wires, tg)) :
          /\ all_wires' = order
          /\ saved' = snapshot(wires, rs, order)
          /\ history' = [n \in {wires[order[i]].name : i \in DOMAIN order} |-> <<>>]
    /\ t' = 0
    /\ pc' = IF cyc > 0 THEN "eval" ELSE "finish"
    /\ pre' = CommittedValues(wires)
    /\ starts' = <<>>
    /\ UNCHANGED <<wires, ctx, next_values, assigned, result, probe, out>>

\* the first call, on the circuit as built
Simulate(tg, cyc, rs) ==
    /\ pc = "build"
    /\ Call(tg, cyc, rs)
    /\ UNCHANGED returned

\* a further call for the same targets, after a call with restore_state =
\* false has returned: the caller keeps what that call returned
SimulateAgain(cyc) ==
    /\ pc = "done" /\ ~restore_state
    /\ Len(returned) + 1 < MaxCalls
    /\ Call(targets, cyc, FALSE)
    /\ returned' = Append(returned, [entries |-> result, cycles |-> cycles, pre |-> pre])

\* one cycle, steps (a) and (b): a fresh EvalContext, then every wire of the
\* closure is evaluated and recorded
Evaluate ==
    /\ pc = "eval"
    /\ \E hw \in Hardware :
          LET r == evaluate_loop([wires |-> wires, hw |-> hw], all_wires, 1,
                                 cycle_context(ctx), history)
          IN  /\ ctx' = r.ctx
              /\ history' = r.history
              /\ pc' = AfterStep(r.st, "next")
    /\ next_values' = NoMap
    /\ starts' = Append(starts, CommittedValues(wires))
    /\ UNCHANGED <<wires, targets, cycles, restore_state, all_wires, saved, t,
                   assigned, result, probe, out, pre, returned>>

\* one cycle, step (c): every registered root is evaluated in the same context
NextValues ==
    /\ pc = "next"
    /\ \E hw \in Hardware :
          LET r == next_values_loop([wires |-> wires, hw |-> hw], all_wires, 1,
                                    ctx, NoMap)
          IN  /\ ctx' = r.ctx
              /\ next_values' = r.next_values
              /\ pc' = AfterStep(r.st, "commit")
    /\ UNCHANGED <<wires, targets, cycles, restore_state, all_wires, saved, history,
                   t, assigned, result, probe, out, pre, starts, returned>>

\* a cycle loop that leaves out the commit of its last cycle
Commit_not_last ==
    /\ pc = "commit"
    /\ wires' = IF t + 1 < cycles THEN commit(wires, next_values) ELSE wires
    /\ t' = t + 1
    /\ pc' = IF t + 1 < cycles THEN "eval" ELSE "finish"
    /\ UNCHANGED <<targets, cycles, restore_state, all_wires, saved, history, ctx,
                   next_values, assigned, result, probe, out, pre, starts, returned>>

\* one cycle, step (d): the next values become the committed values; ++t
Commit ==
    /\ pc = "commit"
    /\ wires' = commit(wires, next_values)
    /\ t' = t + 1
    /\ pc' = IF t + 1 < cycles THEN "eval" ELSE "finish"
    /\ UNCHANGED <<targets, cycles, restore_state, all_wires, saved, history, ctx,
                   next_values, assigned, result, probe, out, pre, starts, returned>>

\* after the cycle loop: the snapshot is written back if restore_state, and
\* history is returned
Finish ==
    /\ pc = "finish"
    /\ wires' = restore(wires, restore_state, saved)
    /\ result' = MapEntries(history, DOMAIN history)
    /\ pc' = "done"
    /\ UNCHANGED <<targets, cycles, restore_state, all_wires, saved, history, t, ctx,
                   next_values, assigned, probe, out, pre, starts, returned>>

Next ==
    \/ \E s \in Statements : s.kind = "comb" /\ AssignComb(s.wire, s.expr)
    \/ \E s \in Statements : s.kind = "next" /\ AssignNext(s.wire, s.expr)
    \/ \E tg \in TargetLists, cyc \in 0..MaxCycles, rs \in BOOLEAN : Simulate(tg, cyc, rs)
    \/ Evaluate
    \/ NextValues
    \/ Commit
    \/ Finish

Spec == Init /\ [][Next]_vars

SpecShared == InitShared /\ [][Next]_vars

\* a statement whose evaluation divides the least long long by -1:
\* y << Expr(LLONG_MIN) / -1
TrapStatements ==
    {[wire |-> 2, kind |-> "next",
      expr |-> make_binary("Div", Const(MinWord), Const(-1))]}

\* the builder with this statement at hand too
NextArith ==
    \/ Next
    \/ \E s \in TrapStatements : AssignNext(s.wire, s.expr)

\* simulate runs its steps one after the other; nothing holds a step back
Fairness ==
    /\ WF_vars(Evaluate) /\ WF_vars(NextValues) /\ WF_vars(Commit) /\ WF_vars(Finish)

SpecArith == Init /\ [][NextArith]_vars /\ Fairness

\* a caller that goes on simulating where the last call left the wires
NextCompose ==
    \/ Next
    \/ \E cyc \in 0..MaxCycles : SimulateAgain(cyc)

SpecCompose == Init /\ [][NextCompose]_vars

----------------------------------------------------------------------------
(* eval_node on its own: one expression evaluated in a fresh context.      *)

\* the operand values: the ends of the word's range, zero and its neighbours
ProbeValues == {MinWord, -7, -1, 0, 1, 5, MaxWord}

\* the operands: constants, the wires, and roots that evaluate to 0, that
\* divide by zero, and that select
ProbeOperands ==
    {Const(k) : k \in ProbeValues} \cup {X, Y, Z}
    \cup {make_binary("Sub", X, X), make_binary("Div", X, Const(0)),
          make_select(Y, Z, X)}

Probes ==
    {make_binary(op, a, b) : op \in BinaryOps, a \in ProbeOperands, b \in ProbeOperands}
    \cup {make_unary(op, a) : op \in UnaryOps, a \in ProbeOperands}
    \cup {make_select(a, b, d) : a \in {Const(0), Const(5), X, Y, Z},
                                 b \in ProbeOperands, d \in ProbeOperands}

\* x and y hold -7 and 0; z holds 2, or is the combinational loop z = z + 1
ProbeCircuits ==
    {Constructed(DistinctNames),
     [Constructed(DistinctNames) EXCEPT ![3].comb_expr = make_binary("Add", Z, Const(1))]}

InitEval == \E W \in ProbeCircuits, root \in Probes : InitWith(W, "probe", root)

\* eval_node(probe, ctx) with a fresh ctx
Probe ==
    /\ pc = "probe"
    /\ \E hw \in Hardware :
          out' = eval_node([wires |-> wires, hw |-> hw], probe, EvalContext, {})
    /\ pc' = "probed"
    /\ UNCHANGED <<wires, targets, cycles, restore_state, all_wires, saved, history,
                   t, ctx, next_values, assigned, result, probe, pre, starts, returned>>

NextEval == Probe

SpecEval == InitEval /\ [][NextEval]_vars

----------------------------------------------------------------------------
(* The demonstration circuits (main.cpp, README): built as written, then   *)
(* simulated for one target or for main's target vector.                   *)

\* a Wire with its four fields
WireOf(name, init, comb, next) ==
    [name |-> name, committed_value |-> init, comb_expr |-> comb, next_expr |-> next]

\* the names "a", "b", "sum", "acc", "maxab", "enable", "value"
NameA == <<97>>
NameB == <<98>>
NameSum == <<115, 117, 109>>
NameAcc == <<97, 99, 99>>
NameMaxab == <<109, 97, 120, 97, 98>>
NameEnable == <<101, 110, 97, 98, 108, 101>>
NameValue == <<118, 97, 108, 117, 101>>

\* main.cpp up to "sum = a + b": wire 1 is a, 2 is b, 3 is sum
SumCircuit ==
    <<WireOf(NameA, 0, Const(1), NullExpr),
      WireOf(NameB, 0, Const(2), NullExpr),
      WireOf(NameSum, 0, make_binary("Add", WireRef(1), WireRef(2)), NullExpr)>>

\* the same with a and b constructed as Wire a("a", 1), Wire b("b", 2) and
\* left without a definition
InputsCircuit ==
    <<WireOf(NameA, 1, NullExpr, NullExpr),
      WireOf(NameB, 2, NullExpr, NullExpr),
      WireOf(NameSum, 0, make_binary("Add", WireRef(1), WireRef(2)), NullExpr)>>

\* main.cpp up to "maxab = If(a > b, a, b)": wire 4 is acc, 5 is maxab
MainCircuit ==
    SumCircuit \o
    <<WireOf(NameAcc, 0, NullExpr, make_binary("Add", WireRef(4), WireRef(3))),
      WireOf(NameMaxab, 0,
             make_select(make_binary("Gt", WireRef(1), WireRef(2)), WireRef(1), WireRef(2)),
             NullExpr)>>

\* README, counter with enable: wire 1 is enable, 2 is value
CounterCircuit ==
    <<WireOf(NameEnable, 0, Const(1), NullExpr),
      WireOf(NameValue, 0, NullExpr,
             make_select(WireRef(1), make_binary("Add", WireRef(2), Const(1)), WireRef(2)))>>

DemoCircuits == {SumCircuit, InputsCircuit, MainCircuit, CounterCircuit}

\* the number of cycles main simulates; the demonstrations run up to it
DemoCycles == 6

\* the vector main passes: sum, acc, maxab
MainTargets == <<3, 4, 5>>

InitDemo == \E W \in DemoCircuits : InitWith(W, "build", NullExpr)

\* simulate(const Wire& target, cycles, restore_state): the one-target overload
SimulateWire(target, cyc, rs) == Simulate(<<target>>, cyc, rs)

\* main's call, for the circuit that has main's wires
SimulateMain(cyc, rs) == wires = MainCircuit /\ Simulate(MainTargets, cyc, rs)

NextDemo ==
    \/ \E w \in Wires, cyc \in 0..DemoCycles, rs \in BOOLEAN : SimulateWire(w, cyc, rs)
    \/ \E cyc \in 0..DemoCycles, rs \in BOOLEAN : SimulateMain(cyc, rs)
    \/ Evaluate
    \/ NextValues
    \/ Commit
    \/ Finish

SpecDemo == InitDemo /\ [][NextDemo]_vars

----------------------------------------------------------------------------
(* The meaning of a circuit, stated without a cache and without iteration  *)
(* orders: what the properties below compare the program against.          *)

\* the closure of the program's run, as a set
ClosureSet == {all_wires[i] : i \in DOMAIN all_wires}

\* the wires an expression names, in any position
RECURSIVE Refs(_)
Refs(n) ==
    IF n = NullExpr THEN {}
    ELSE IF n.op = "WireRef" THEN {n.wire} \ {NullWire}
    ELSE UNION {Refs(n[f]) : f \in (DOMAIN n) \cap {"a", "b", "c"}}

\* the wires the two definitions of the members of S name
Referenced(W, S) == UNION {Refs(W[w].comb_expr) \cup Refs(W[w].next_expr) : w \in S}

\* S holds every wire its members' definitions name
Closed(W, S) == Referenced(W, S) \subseteq S

\* a value, or no value (the evaluation has none: it does not end, or an
\* arithmetic operator overflows); used is the set of wires whose value the
\* evaluation asked for
Val(v, used) == [ok |-> TRUE, v |-> v, used |-> used]
NoVal(used) == [ok |-> FALSE, v |-> 0, used |-> used]

RECURSIVE Den(_, _, _, _)
\* the value of expression n where the committed values are V and the
\* definitions are those of W; depth bounds the nesting of combinational
\* definitions, which in an evaluation that ends never repeats a wire
Den(W, V, n, depth) ==
    CASE n.op = "Constant" -> Val(n.constant_value, {})
      [] n.op = "WireRef" ->
            IF W[n.wire].comb_expr = NullExpr THEN Val(V[n.wire], {n.wire})
            ELSE IF depth = 0 THEN NoVal({n.wire})
            ELSE LET r == Den(W, V, W[n.wire].comb_expr, depth - 1)
                 IN  [r EXCEPT !.used = @ \cup {n.wire}]
      [] n.op = "Select" ->
            LET ra == Den(W, V, n.a, depth)
            IN  IF ~ra.ok THEN ra
                ELSE LET rb == Den(W, V, IF ra.v # 0 THEN n.b ELSE n.c, depth)
                     IN  [rb EXCEPT !.used = @ \cup ra.used]
      [] n.op \in {"Div", "Mod"} ->
            LET rd == Den(W, V, n.b, depth)
            IN  IF ~rd.ok THEN rd
                ELSE IF rd.v = 0 THEN Val(0, rd.used)
                ELSE LET ra == Den(W, V, n.a, depth)
                         u == ra.used \cup rd.used
                     IN  IF ~ra.ok \/ (ra.v = MinWord /\ rd.v = -1) THEN NoVal(u)
                         ELSE Val(IF n.op = "Div" THEN TruncDiv(ra.v, rd.v)
                                  ELSE TruncMod(ra.v, rd.v), u)
      [] n.op \in {"LogAnd", "LogOr"} ->
            LET ra == Den(W, V, n.a, depth)
            IN  IF ~ra.ok THEN ra
                ELSE IF (n.op = "LogAnd") = (ra.v = 0)
                THEN Val(IF n.op = "LogAnd" THEN 0 ELSE 1, ra.used)
                ELSE LET rb == Den(W, V, n.b, depth)
                     IN  IF ~rb.ok THEN NoVal(ra.used \cup rb.used)
                         ELSE Val(IF rb.v # 0 THEN 1 ELSE 0, ra.used \cup rb.used)
      [] n.op \in UnaryOps ->
            LET ra == Den(W, V, n.a, depth)
            IN  IF ~ra.ok THEN ra
                ELSE IF Overflows(n.op, ra.v, 0) THEN NoVal(ra.used)
                ELSE Val(ApplyUnary(n.op, ra.v), ra.used)
      [] OTHER ->
            LET ra == Den(W, V, n.a, depth)
                rb == Den(W, V, n.b, depth)
                u == ra.used \cup rb.used
            IN  IF ~ra.ok \/ ~rb.ok THEN NoVal(u)
                ELSE IF Overflows(n.op, ra.v, rb.v) THEN NoVal(u)
                ELSE Val(ApplyStrict(CHOOSE hw \in Hardware : TRUE, n.op, ra.v, rb.v), u)

\* the value of a root in the state the current cycle started from, and in
\* the state cycle k started from
Meaning(n, V) == Den(wires, V, n, Cardinality(Wires))
CycleStart == starts[Len(starts)]

\* the histories recorded so far, per wire (a wire's history is the entry of
\* its name)
HistoryOf(w) == history[wires[w].name]
Recorded(w) == wires[w].name \in DOMAIN history

----------------------------------------------------------------------------
(* C1: restore_state = true leaves the committed values as they were.      *)

\* C1: when simulate(targets, cycles, true) has returned, every wire of the
\* dependency closure of targets holds the committed value it held when
\* simulate was called, for every target list and every number of cycles.
C1_RestoreLeavesCommitted ==
    (pc = "done" /\ restore_state) =>
        \A w \in ClosureSet : wires[w].committed_value = pre[w]

\* a run with restore_state that committed a value other than the one the wire
\* held at the call, and has returned
C1_Witness ==
    /\ pc = "done" /\ restore_state /\ cycles > 0
    /\ \E w \in DOMAIN next_values : next_values[w] # pre[w]
    /\ \A w \in ClosureSet : wires[w].committed_value = pre[w]

----------------------------------------------------------------------------
(* C2: a registered update is visible one cycle later.                     *)

\* the value recorded for w in cycle k + 1 is the value of its registered
\* root in the state cycle k started from
NextVisibleOneCycleLater(w) ==
    \A k \in 1..(Len(HistoryOf(w)) - 1) :
        LET r == Meaning(wires[w].next_expr, starts[k])
        IN  r.ok /\ HistoryOf(w)[k + 1] = r.v

\* C2 as claimed: for every closure wire with a registered definition and every
\* cycle i with i + 1 < cycles, history[i + 1] of the wire is the value of its
\* registered root evaluated against cycle i's state.
C2_Original ==
    \A w \in ClosureSet :
        (Recorded(w) /\ wires[w].next_expr # NullExpr) => NextVisibleOneCycleLater(w)

\* C2 amended: the same, for the closure wires that have a registered
\* definition and no combinational definition (a wire with both records the
\* value of its combinational root).
C2_RegisteredOnly ==
    \A w \in ClosureSet :
        (Recorded(w) /\ wires[w].next_expr # NullExpr /\ wires[w].comb_expr = NullExpr)
            => NextVisibleOneCycleLater(w)

\* a register whose recorded value changed from one cycle to the next
C2_Witness ==
    \E w \in ClosureSet :
        /\ Recorded(w) /\ wires[w].next_expr # NullExpr /\ wires[w].comb_expr = NullExpr
        /\ Len(HistoryOf(w)) >= 2
        /\ HistoryOf(w)[2] # HistoryOf(w)[1]
        /\ HistoryOf(w)[2] = Meaning(wires[w].next_expr, starts[1]).v

----------------------------------------------------------------------------
(* C3: all registered roots of a cycle read the state the cycle started    *)
(* from.                                                                   *)

\* C3: while the roots of a cycle are evaluated no committed value has been
\* written, and once they are all evaluated each next value is the value of its
\* registered root in the state the cycle started from, whatever the order in
\* which the closure is walked.
C3_RootsReadCycleStart ==
    /\ pc \in {"next", "commit"} => CommittedValues(wires) = CycleStart
    /\ pc = "commit" =>
          \A w \in ClosureSet :
              wires[w].next_expr # NullExpr =>
                  /\ w \in DOMAIN next_values
                  /\ Meaning(wires[w].next_expr, CycleStart).ok
                  /\ next_values[w] = Meaning(wires[w].next_expr, CycleStart).v

\* x << y together with y << x: the two next values are the two committed
\* values, swapped, and they differ
C3_Witness ==
    /\ pc = "commit"
    /\ wires[1].next_expr = Y /\ wires[2].next_expr = X
    /\ wires[1].comb_expr = NullExpr /\ wires[2].comb_expr = NullExpr
    /\ {1, 2} \subseteq DOMAIN next_values
    /\ next_values[1] = wires[2].committed_value
    /\ next_values[2] = wires[1].committed_value
    /\ next_values[1] # next_values[2]

----------------------------------------------------------------------------
(* C4: a combinational value depends on the cycle's starting state alone.  *)

\* C4: for every closure wire with a combinational definition and no registered
\* one, the value recorded in every cycle is the value of its combinational
\* root in the committed state that cycle started from.
C4_CombinationalFromCycleStart ==
    \A w \in ClosureSet :
        (Recorded(w) /\ wires[w].comb_expr # NullExpr /\ wires[w].next_expr = NullExpr) =>
            \A k \in 1..Len(HistoryOf(w)) :
                LET r == Meaning(wires[w].comb_expr, starts[k])
                IN  r.ok /\ HistoryOf(w)[k] = r.v

\* a combinational wire whose inputs a register changed: its second recorded
\* value differs from its first
C4_Witness ==
    \E w \in ClosureSet :
        /\ Recorded(w) /\ wires[w].comb_expr # NullExpr /\ wires[w].next_expr = NullExpr
        /\ Len(HistoryOf(w)) >= 2
        /\ HistoryOf(w)[2] # HistoryOf(w)[1]
        /\ starts[2] # starts[1]

----------------------------------------------------------------------------
(* C5: the keys of the result are the closure, each with cycles values.    *)

RECURSIVE Reachable(_, _, _)
\* what is reached from S by following references at most k times
Reachable(W, S, k) == IF k = 0 THEN S ELSE Reachable(W, S \cup Referenced(W, S), k - 1)

\* the dependency closure of a target list: the targets and every wire they
\* reach through references
DependencyClosure(W, tg) ==
    Reachable(W, {tg[i] : i \in DOMAIN tg} \ {NullWire}, Cardinality(Wires))

PairwiseDistinctNames(S) == \A v, w \in S : wires[v].name = wires[w].name => v = w

\* C5: when the names of the closure are pairwise distinct, the mapping
\* simulate returns has exactly one key for each wire of the dependency closure
\* of targets and no other key (none for no targets), and every value sequence
\* has cycles values.
C5_KeysAreClosure ==
    (pc = "done" /\ PairwiseDistinctNames(DependencyClosure(wires, targets))) =>
        /\ {result[i].name : i \in DOMAIN result} =
               {wires[w].name : w \in DependencyClosure(wires, targets)}
        /\ Len(result) = Cardinality(DependencyClosure(wires, targets))
        /\ \A i \in DOMAIN result : Len(result[i].values) = cycles

\* a returned mapping with more keys than targets: wires that are only
\* referenced, through a registered and a combinational definition
C5_Witness ==
    /\ pc = "done" /\ cycles = MaxCycles
    /\ Len(targets) = 1 /\ Len(result) = 3
    /\ \A i \in DOMAIN result : Len(result[i].values) = cycles

----------------------------------------------------------------------------
(* C6: what a select's unchosen branch can and cannot do to a run.         *)

\* the roots of w both have a value in the state V
OwnRootsOk(w, V) ==
    /\ wires[w].comb_expr # NullExpr => Meaning(wires[w].comb_expr, V).ok
    /\ wires[w].next_expr # NullExpr => Meaning(wires[w].next_expr, V).ok

\* the wires whose value the evaluation of the roots of the members of S asks
\* for: those named in a condition or in a chosen branch, never those named
\* only in an unchosen branch
AskedFor(S, V) ==
    UNION {(IF wires[w].comb_expr # NullExpr
            THEN Meaning(wires[w].comb_expr, V).used ELSE {})
           \cup (IF wires[w].next_expr # NullExpr
                 THEN Meaning(wires[w].next_expr, V).used ELSE {}) : w \in S}

RECURSIVE Demanded(_, _, _)
\* the targets and every wire reached from them through evaluated positions
Demanded(S, V, k) == IF k = 0 THEN S ELSE Demanded(S \cup AskedFor(S, V), V, k - 1)

\* C6 as claimed: a division by zero or an endless recursion that only an
\* unchosen branch contains does not crash the run: a run crashes only if a
\* root that is evaluated on behalf of the targets, through conditions and
\* chosen branches, has no value.
C6_Original ==
    pc = "crashed" =>
        \E w \in Demanded({targets[i] : i \in DOMAIN targets} \ {NullWire},
                          CycleStart, Cardinality(Wires)) :
            ~OwnRootsOk(w, CycleStart)

\* C6 amended: eval_node evaluates the condition of a select and its chosen
\* branch only, so the value of a wire defined by a select is the value of the
\* chosen branch, whatever the other branch contains; and the run crashes
\* exactly when a root of some closure member has no value.  A wire named only
\* in an unchosen branch is a closure member: its own endless recursion does
\* crash the run.
C6_ChosenBranchOnly ==
    /\ pc = "crashed" => \E w \in ClosureSet : ~OwnRootsOk(w, CycleStart)
    /\ pc = "next" =>
          \A w \in ClosureSet :
              wires[w].comb_expr # NullExpr => Meaning(wires[w].comb_expr, CycleStart).ok
    /\ pc = "commit" => \A w \in ClosureSet : OwnRootsOk(w, CycleStart)
    /\ pc \in {"next", "commit", "crashed"} =>
          \A w \in DOMAIN ctx.comb_cache :
              wires[w].comb_expr.op = "Select" =>
                  LET n == wires[w].comb_expr
                      cond == Meaning(n.a, CycleStart)
                      chosen == Meaning(IF cond.v # 0 THEN n.b ELSE n.c, CycleStart)
                  IN  cond.ok /\ chosen.ok /\ ctx.comb_cache[w] = chosen.v

\* a select was evaluated to its chosen branch, the other branch divides by
\* zero a wire whose own root has no value, and the run crashed on that wire
C6_Witness ==
    /\ pc = "crashed"
    /\ \E w \in DOMAIN ctx.comb_cache :
          /\ wires[w].comb_expr.op = "Select"
          /\ Meaning(wires[w].comb_expr.a, CycleStart).v # 0
          /\ wires[w].comb_expr.c.op = "Div"
          /\ \E v \in Refs(wires[w].comb_expr.c) :
                v \notin Refs(wires[w].comb_expr.b) /\ ~OwnRootsOk(v, CycleStart)
          /\ ctx.comb_cache[w] = Meaning(wires[w].comb_expr.b, CycleStart).v
          /\ HistoryOf(w) = <<ctx.comb_cache[w]>>

----------------------------------------------------------------------------
(* C7: division and modulo by zero.                                        *)

\* C7: a Div or Mod node whose divisor evaluates to 0 evaluates to 0, whatever
\* its dividend is (also one that has no value): no trap, no crash.
C7_DivModByZeroIsZero ==
    (pc = "probed" /\ probe.op \in {"Div", "Mod"}) =>
        LET d == Meaning(probe.b, CommittedValues(wires))
        IN  (d.ok /\ d.v = 0) => (out.st = "ok" /\ out.v = 0)

\* a modulo by a divisor that evaluates to 0 whose dividend is the wire of the
\* combinational loop
C7_Witness ==
    /\ pc = "probed" /\ probe.op = "Mod"
    /\ probe.a = Z /\ wires[3].comb_expr # NullExpr
    /\ probe.b = make_binary("Sub", X, X)
    /\ out.st = "ok" /\ out.v = 0

----------------------------------------------------------------------------
(* C8: closure_from_targets is the least closed set, and a fixed point.    *)

\* C8: the set closure_from_targets returns holds the non-null targets, holds
\* every wire named in the combinational or registered definition of a member,
\* is included in every set with these two properties, and is its own closure.
C8_LeastClosedSet ==
    pc \notin {"build", "probe", "probed"} =>
        LET T == {targets[i] : i \in DOMAIN targets} \ {NullWire}
        IN  /\ T \subseteq ClosureSet
            /\ Closed(wires, ClosureSet)
            /\ \A S \in SUBSET Wires : (T \subseteq S /\ Closed(wires, S)) => ClosureSet \subseteq S
            /\ closure_from_targets(wires, all_wires) = ClosureSet
            /\ Len(all_wires) = Cardinality(ClosureSet)

\* a closure of one target that holds a wire named only in a registered
\* definition and a wire named only in the else branch of a select
C8_Witness ==
    /\ pc = "eval" /\ targets = <<2>>
    /\ ClosureSet = {1, 2, 3}
    /\ 1 \in Refs(wires[2].next_expr) /\ 3 \notin Refs(wires[2].next_expr)
    /\ wires[1].comb_expr.op = "Select" /\ 3 \in Refs(wires[1].comb_expr.c)
    /\ 3 \notin Refs(wires[1].comb_expr.a) \cup Refs(wires[1].comb_expr.b)

----------------------------------------------------------------------------
(* C9: one evaluation per combinational wire and cycle.                    *)

\* C9: in a cycle that does not crash, the combinational root of a wire is
\* evaluated at most once, and the cached value every later reference gets is
\* the value of the root in the state the cycle started from.
C9_EvaluatedOncePerCycle ==
    pc \in {"next", "commit", "finish", "done"} =>
        /\ \A w \in Wires : ctx.evals[w] <= 1
        /\ \A w \in DOMAIN ctx.comb_cache :
              /\ ctx.evals[w] = 1
              /\ Meaning(wires[w].comb_expr, CycleStart).ok
              /\ ctx.comb_cache[w] = Meaning(wires[w].comb_expr, CycleStart).v

\* a combinational wire that step (b) and a registered root of step (c) both
\* referred to: one evaluation, and the cache answered at least once
C9_Witness ==
    /\ pc = "commit"
    /\ \E w \in DOMAIN ctx.comb_cache :
          /\ ctx.evals[w] = 1 /\ ctx.hits[w] >= 1
          /\ \E v \in DOMAIN next_values : w \in Refs(wires[v].next_expr)

----------------------------------------------------------------------------
(* C10: the result does not depend on orders.                              *)

\* the wires as they were when simulate was called
WiresAtCall == [w \in Wires |-> [wires[w] EXCEPT !.committed_value = pre[w]]]

RECURSIVE RunCycles(_, _, _, _, _)
\* the histories of k more cycles from the wires W, the closure walked in the
\* given order
RunCycles(W, hw, order, k, hist) ==
    IF k = 0 THEN [ok |-> TRUE, entries |-> MapEntries(hist, DOMAIN hist), wires |-> W]
    ELSE LET m == [wires |-> W, hw |-> hw]
             e == evaluate_loop(m, order, 1, EvalContext, hist)
             nv == next_values_loop(m, order, 1, e.ctx, NoMap)
         IN  IF e.st # "ok" \/ nv.st # "ok"
             THEN [ok |-> FALSE, entries |-> <<>>, wires |-> W]
             ELSE RunCycles(commit(W, nv.next_values), hw, order, k - 1, e.history)

\* every target list with the same targets, every order of the closure and
\* every build give the result this run returned, with its keys in
\* lexicographic order
SameResultForAllOrders ==
    /\ \A tg \in TargetLists :
          {tg[i] : i \in DOMAIN tg} \ {NullWire}
              = {targets[i] : i \in DOMAIN targets} \ {NullWire}
          => closure_from_targets(WiresAtCall, tg) = ClosureSet
    /\ \A order \in Orders(ClosureSet), hw \in Hardware :
          LET r == RunCycles(WiresAtCall, hw, order, cycles,
                             [n \in {wires[w].name : w \in ClosureSet} |-> <<>>])
          IN  r.ok /\ r.entries = result
    /\ \A i, j \in DOMAIN result : i < j => LexLess(result[i].name, result[j].name)

\* C10 as claimed: for the same circuit state, target set and cycles the
\* returned mapping is the same whatever the order of the target list, its
\* repetitions and the order in which the closure is walked.
C10_Original == pc = "done" => SameResultForAllOrders

\* C10 amended: the same, when the names of the closure are pairwise distinct
\* (two wires of one name share an entry, filled in the order of the walk).
C10_DeterministicResult ==
    (pc = "done" /\ PairwiseDistinctNames(ClosureSet)) => SameResultForAllOrders

\* a returned mapping of two wires with different names whose values changed
\* during the run, asked for by a list that repeats a target
C10_Witness ==
    /\ pc = "done" /\ PairwiseDistinctNames(ClosureSet)
    /\ Len(targets) = 2 /\ targets[1] = targets[2]
    /\ Len(result) = 2 /\ cycles = MaxCycles
    /\ \A i \in DOMAIN result : result[i].values[1] # result[i].values[2]

----------------------------------------------------------------------------
(* C11, C12, C13: the demonstration scenarios.                             *)

\* the entry the returned mapping holds for a name
EntryFor(name) == {result[i].values : i \in {j \in DOMAIN result : result[j].name = name}}

\* simulate([sum], 3) has returned
SumScenario ==
    /\ pc = "done" /\ wires \in {SumCircuit, InputsCircuit}
    /\ targets = <<3>> /\ cycles = 3

\* C11 as claimed: with a = 1, b = 2 and sum = a + b, simulate([sum], 3) returns
\* the mapping with the one entry sum: 3, 3, 3.
C11_Original ==
    SumScenario => result = <<[name |-> NameSum, values |-> <<3, 3, 3>>]>>

\* C11 amended: it returns the entries of the whole closure in key order,
\* a: 1, 1, 1, then b: 2, 2, 2, then sum: 3, 3, 3.
C11_SumAndItsInputs ==
    SumScenario => result = <<[name |-> NameA, values |-> <<1, 1, 1>>],
                              [name |-> NameB, values |-> <<2, 2, 2>>],
                              [name |-> NameSum, values |-> <<3, 3, 3>>]>>

\* simulate([sum], 3) has returned, for main's a = 1 and b = 2
C11_Witness == SumScenario /\ wires = SumCircuit /\ EntryFor(NameSum) = {<<3, 3, 3>>}

\* C12: with acc initially 0, acc << acc + sum and sum = a + b = 3, a simulation
\* of 6 cycles whose closure holds acc maps acc to 0, 3, 6, 9, 12, 15 and sum to
\* 3 in each of the 6 cycles.
C12_Accumulator ==
    (pc = "done" /\ 4 \in ClosureSet /\ cycles = 6 /\ Len(wires) = 5) =>
        /\ EntryFor(NameAcc) = {<<0, 3, 6, 9, 12, 15>>}
        /\ EntryFor(NameSum) = {<<3, 3, 3, 3, 3, 3>>}

\* simulate([acc], 6) has returned and left acc advanced to 18
C12_Witness ==
    /\ pc = "done" /\ targets = <<4>> /\ cycles = 6 /\ ~restore_state
    /\ wires[4].committed_value = 18
    /\ EntryFor(NameAcc) = {<<0, 3, 6, 9, 12, 15>>}

\* C13: with enable = 1 and value << If(enable, value + 1, value), value
\* initially 0, simulate([value], 5) returns enable: 1, 1, 1, 1, 1 and
\* value: 0, 1, 2, 3, 4, in this order and nothing else.
C13_CounterWithEnable ==
    (pc = "done" /\ Len(wires) = 2 /\ targets = <<2>> /\ cycles = 5) =>
        result = <<[name |-> NameEnable, values |-> <<1, 1, 1, 1, 1>>],
                   [name |-> NameValue, values |-> <<0, 1, 2, 3, 4>>]>>

\* simulate(value, 5) has returned and restored value to 0
C13_Witness ==
    /\ pc = "done" /\ wires = CounterCircuit /\ targets = <<2>> /\ cycles = 5
    /\ restore_state /\ Len(result) = 2

----------------------------------------------------------------------------
(* C14: a simulation of no cycles.                                         *)

\* C14: for every target list and either value of restore_state, simulate with
\* cycles = 0 returns an entry with no values for every name of the dependency
\* closure and for no other name, and leaves every committed value as it was:
\* the closure is computed, nothing is evaluated and nothing is committed.
C14_ZeroCycles ==
    (pc = "done" /\ cycles = 0) =>
        /\ ClosureSet = DependencyClosure(wires, targets)
        /\ {result[i].name : i \in DOMAIN result} = {wires[w].name : w \in ClosureSet}
        /\ \A i \in DOMAIN result : result[i].values = <<>>
        /\ CommittedValues(wires) = pre
        /\ starts = <<>> /\ t = 0 /\ next_values = NoMap

\* a simulation of no cycles has returned three empty entries for a closure
\* whose registers would have changed a committed value in a first cycle,
\* without restore_state
C14_Witness ==
    /\ pc = "done" /\ cycles = 0 /\ ~restore_state
    /\ Len(result) = 3 /\ \A i \in DOMAIN result : result[i].values = <<>>
    /\ \E w \in ClosureSet :
          /\ wires[w].next_expr # NullExpr
          /\ Meaning(wires[w].next_expr, pre).ok
          /\ Meaning(wires[w].next_expr, pre).v # pre[w]
    /\ CommittedValues(wires) = pre

----------------------------------------------------------------------------
(* C15: logical and comparison nodes.                                      *)

LogicalOps == {"LogAnd", "LogOr", "LogNot"}
ComparisonOps == {"Eq", "Ne", "Lt", "Le", "Gt", "Ge"}

\* 1 for a true statement, 0 for a false one
Truth(b) == IF b THEN 1 ELSE 0

\* the signed comparison the node op names
Compares(op, x, y) ==
    CASE op = "Eq" -> x = y
      [] op = "Ne" -> x # y
      [] op = "Lt" -> x < y
      [] op = "Le" -> y >= x
      [] op = "Gt" -> y < x
      [] op = "Ge" -> x >= y

\* C15: a logical node reads 0 as false and every other value as true and
\* evaluates to the 0 or 1 of the conjunction, disjunction or negation (the
\* right operand of && and || is left aside when the left one decides); a
\* comparison node evaluates to the 0 or 1 of the signed comparison of its
\* operands.
C15_LogicalAndComparison ==
    (pc = "probed" /\ probe.op \in LogicalOps \cup ComparisonOps) =>
        LET a == Meaning(probe.a, CommittedValues(wires))
            b == Meaning(probe.b, CommittedValues(wires))
            is(v) == out.st = "ok" /\ out.v = v
        IN  /\ out.st = "ok" => out.v \in {0, 1}
            /\ (probe.op = "LogNot" /\ a.ok) => is(Truth(a.v = 0))
            /\ (probe.op = "LogAnd" /\ a.ok /\ a.v = 0) => is(0)
            /\ (probe.op = "LogAnd" /\ a.ok /\ a.v # 0 /\ b.ok) => is(Truth(b.v # 0))
            /\ (probe.op = "LogOr" /\ a.ok /\ a.v # 0) => is(1)
            /\ (probe.op = "LogOr" /\ a.ok /\ a.v = 0 /\ b.ok) => is(Truth(b.v # 0))
            /\ (probe.op \in ComparisonOps /\ a.ok /\ b.ok) =>
                  is(Truth(Compares(probe.op, a.v, b.v)))

\* 5 && -7 evaluated to 1: two values that are true without being 1
C15_Witness ==
    /\ pc = "probed"
    /\ probe = make_binary("LogAnd", Const(5), Const(-7))
    /\ out.st = "ok" /\ out.v = 1

----------------------------------------------------------------------------
(* C16: arithmetic at the ends of the word's range.                        *)

ArithmeticOps == {"Add", "Sub", "Mul", "Div", "Mod", "Neg"}

\* the result of the operator over the integers
Exact(op, x, y) ==
    CASE op = "Add" -> x + y
      [] op = "Sub" -> x - y
      [] op = "Mul" -> x * y
      [] op = "Div" -> TruncDiv(x, y)
      [] op = "Mod" -> TruncMod(x, y)
      [] op = "Neg" -> -x

\* the operands of the probe have the values x and y (y is 0 for the unary
\* node) and the node's operator is applied to them
Applied(x, y) ==
    LET V == CommittedValues(wires)
    IN  /\ Meaning(probe.a, V).ok /\ Meaning(probe.a, V).v = x
        /\ IF probe.op = "Neg" THEN y = 0
           ELSE Meaning(probe.b, V).ok /\ Meaning(probe.b, V).v = y
        /\ probe.op \in {"Div", "Mod"} => y # 0

\* C16 as claimed: an arithmetic node evaluates, for every pair of operand
\* values, to the two's-complement wrapped value of the exact result, also for
\* the least word negated or divided by -1; it never traps.
C16_Original ==
    (pc = "probed" /\ probe.op \in ArithmeticOps) =>
        \A x, y \in MinWord..MaxWord :
            Applied(x, y) => (out.st = "ok" /\ out.v = Wrap(Exact(probe.op, x, y)))

\* C16, what the builds do instead: the wrapped value whenever a value is returned, and
\* the wrapped value always when the exact result (for %, the quotient that
\* goes with it) is a word; otherwise the process may end instead
C16_WrapsUnlessTrapped ==
    (pc = "probed" /\ probe.op \in ArithmeticOps) =>
        \A x, y \in MinWord..MaxWord :
            Applied(x, y) =>
                /\ out.st \in {"ok", "trap"}
                /\ out.st = "ok" => out.v = Wrap(Exact(probe.op, x, y))
                /\ out.st = "trap" =>
                      Exact(IF probe.op = "Mod" THEN "Div" ELSE probe.op, x, y)
                          \notin MinWord..MaxWord

\* the least word divided by -1: the division instruction raised
C16_Trapped ==
    /\ pc = "probed"
    /\ probe = make_binary("Div", Const(MinWord), Const(-1))
    /\ out.st = "trap"

----------------------------------------------------------------------------
(* C17: a wire with both definitions.                                      *)

\* w has a combinational and a registered definition
BothDefined(w) == wires[w].comb_expr # NullExpr /\ wires[w].next_expr # NullExpr

\* C17: for a closure wire with both definitions, the value recorded in every
\* cycle and the value the cycle's references read (the cached one) is the
\* value of its combinational root, whatever its committed value is; the next
\* value computed in the cycle and the committed value after the cycle's commit
\* is the value of its registered root.
C17_BothDefinitions ==
    \A w \in ClosureSet :
        (Recorded(w) /\ BothDefined(w)) =>
            /\ \A k \in 1..Len(HistoryOf(w)) :
                  LET r == Meaning(wires[w].comb_expr, starts[k])
                  IN  r.ok /\ HistoryOf(w)[k] = r.v
            /\ pc \in {"next", "commit"} =>
                  /\ w \in DOMAIN ctx.comb_cache
                  /\ ctx.comb_cache[w] = Meaning(wires[w].comb_expr, CycleStart).v
            /\ pc = "commit" =>
                  next_values[w] = Meaning(wires[w].next_expr, CycleStart).v
            /\ (starts # <<>> /\ (pc \in {"eval", "finish"} \/ (pc = "done" /\ ~restore_state)))
                  => /\ Meaning(wires[w].next_expr, CycleStart).ok
                     /\ wires[w].committed_value = Meaning(wires[w].next_expr, CycleStart).v

\* a wire with both definitions whose last recorded value is not the value its
\* commits left in it, and whose committed value the commits changed
C17_Witness ==
    /\ pc = "finish" /\ cycles = MaxCycles
    /\ \E w \in ClosureSet :
          /\ Recorded(w) /\ BothDefined(w)
          /\ Len(HistoryOf(w)) = cycles
          /\ HistoryOf(w)[cycles] # wires[w].committed_value
          /\ HistoryOf(w)[cycles] # pre[w]
          /\ wires[w].committed_value # pre[w]

----------------------------------------------------------------------------
(* C18: simulate returns.                                                  *)

\* the wires with a combinational definition that the combinational
\* definitions of the members of S name
CombStep(S) ==
    {v \in UNION {Refs(wires[w].comb_expr) : w \in S} : wires[v].comb_expr # NullExpr}

RECURSIVE CombReach(_, _)
CombReach(S, k) == IF k = 0 THEN S ELSE CombReach(S \cup CombStep(S), k - 1)

\* no combinational definition reaches itself through combinational references
CombAcyclic ==
    \A w \in Wires : w \notin CombReach(CombStep({w}), Cardinality(Wires))

\* C18 as claimed, its safety part: in a circuit in which no combinational
\* definition reaches itself through combinational references, simulate never
\* ends without a result, and when it is through its cycle loop it has made
\* exactly cycles evaluate-commit iterations.
C18_Original ==
    CombAcyclic =>
        /\ pc \notin {"crashed", "trapped"}
        /\ pc \in {"finish", "done"} => (t = cycles /\ Len(starts) = cycles)

\* C18, what the code does: in such a circuit a call of simulate comes to its
\* return after exactly cycles iterations, also with feedback through
\* registered definitions, unless an arithmetic instruction raises on the way.
C18_ReturnsUnlessTrapped ==
    /\ [](CombAcyclic =>
            /\ pc # "crashed"
            /\ pc \in {"finish", "done"} => (t = cycles /\ Len(starts) = cycles))
    /\ (pc \in {"eval", "finish"} /\ CombAcyclic) ~> (pc \in {"done", "trapped"})

\* a circuit without combinational loops, with x << y and y << LLONG_MIN / -1,
\* whose simulation ended in the division
C18_Trapped ==
    /\ pc = "trapped" /\ CombAcyclic
    /\ wires[2].next_expr.op = "Div" /\ 2 \in ClosureSet
    /\ t = 0 /\ cycles > 0

----------------------------------------------------------------------------
(* C19: registered roots read what the cycle recorded.                     *)

\* the value recorded for w in the current cycle
RecordedNow(w) == HistoryOf(w)[Len(HistoryOf(w))]

\* the circuit read off the histories: every closure wire is an input that
\* holds the value recorded for it in the current cycle
AsRecorded ==
    [w \in Wires |-> [wires[w] EXCEPT !.comb_expr = NullExpr]]
RecordedValues ==
    [w \in Wires |-> IF w \in ClosureSet THEN RecordedNow(w) ELSE wires[w].committed_value]

\* C19: when the registered roots of cycle i have been evaluated, every
\* closure wire has its value of cycle i recorded as history[i], that value is
\* the one a reference to the wire reads (the cached value of a combinational
\* wire, the committed value of any other), and every next value is the value
\* its registered root has when each wire it names is read as history[i].
C19_RootsReadRecordedValues ==
    (pc = "commit" /\ PairwiseDistinctNames(ClosureSet)) =>
        /\ \A v \in ClosureSet :
              /\ Len(HistoryOf(v)) = t + 1
              /\ RecordedNow(v) = IF wires[v].comb_expr # NullExpr
                                  THEN ctx.comb_cache[v]
                                  ELSE wires[v].committed_value
        /\ \A w \in ClosureSet :
              wires[w].next_expr # NullExpr =>
                  LET r == Den(AsRecorded, RecordedValues, wires[w].next_expr, 0)
                  IN  r.ok /\ next_values[w] = r.v

\* in a second cycle, a registered root read a combinational wire whose
\* recorded value differs from its value of the first cycle and from its
\* committed value
C19_Witness ==
    /\ pc = "commit" /\ t = 1
    /\ \E w, v \in ClosureSet :
          /\ wires[w].next_expr # NullExpr /\ wires[v].comb_expr # NullExpr
          /\ v \in Meaning(wires[w].next_expr, CycleStart).used
          /\ HistoryOf(v)[2] # HistoryOf(v)[1]
          /\ HistoryOf(v)[2] # wires[v].committed_value
          /\ next_values[w] # wires[w].committed_value

----------------------------------------------------------------------------
(* C20: runs with restore_state = false compose.                           *)

\* the calls made so far, the one that has just returned last
AllCalls == Append(returned, [entries |-> result, cycles |-> cycles, pre |-> pre])

RECURSIVE TotalCycles(_)
TotalCycles(calls) ==
    IF calls = <<>> THEN 0 ELSE Head(calls).cycles + TotalCycles(Tail(calls))

RECURSIVE Concatenated(_, _)
\* the values the calls returned in their i-th entry, one call after the other
Concatenated(calls, i) ==
    IF calls = <<>> THEN <<>>
    ELSE Head(calls).entries[i].values \o Concatenated(Tail(calls), i)

\* the wires as the first of the calls met them
WiresAtFirstCall ==
    [w \in Wires |-> [wires[w] EXCEPT !.committed_value = AllCalls[1].pre[w]]]

\* C20: when simulate(targets, n, false) and then simulate(targets, m, false)
\* have returned, the values of each name, those of the first call followed by
\* those of the second, are the values a single simulate(targets, n + m, false)
\* returns for that name from the state the first call started in, and the
\* committed values the two calls leave are those the single call leaves.
C20_RunsCompose ==
    (pc = "done" /\ ~restore_state /\ PairwiseDistinctNames(ClosureSet)) =>
        \A order \in Orders(ClosureSet), hw \in Hardware :
            LET r == RunCycles(WiresAtFirstCall, hw, order, TotalCycles(AllCalls),
                               [n \in {wires[w].name : w \in ClosureSet} |-> <<>>])
            IN  /\ r.ok
                /\ Len(r.entries) = Len(result)
                /\ \A i \in DOMAIN result :
                      /\ \A k \in DOMAIN AllCalls :
                            AllCalls[k].entries[i].name = r.entries[i].name
                      /\ r.entries[i].values = Concatenated(AllCalls, i)
                /\ CommittedValues(r.wires) = CommittedValues(wires)

\* two calls of MaxCycles cycles each have returned, and a register moved on
\* in each of them
C20_Witness ==
    /\ pc = "done" /\ ~restore_state /\ Len(returned) = 1
    /\ returned[1].cycles = MaxCycles /\ cycles = MaxCycles
    /\ \E i \in DOMAIN result :
          /\ returned[1].entries[i].values[1] # returned[1].entries[i].values[2]
          /\ result[i].values[1] # returned[1].entries[i].values[2]
          /\ result[i].values[1] # result[i].values[2]
    /\ CommittedValues(wires) # pre /\ pre # returned[1].pre

----------------------------------------------------------------------------
(* C21: what simulate leaves alone.                                        *)

\* C21: no step of simulate, with either value of restore_state, changes the
\* name, the combinational definition or the registered definition of a wire,
\* nor the committed value of a wire that has no registered definition or is
\* outside the dependency closure of the targets; such a wire holds, all
\* through the call and after it, the committed value it held at the call.
C21_Frame ==
    [][pc' # "build" =>
          /\ DOMAIN wires' = DOMAIN wires
          /\ \A w \in Wires :
                /\ wires'[w].name = wires[w].name
                /\ wires'[w].comb_expr = wires[w].comb_expr
                /\ wires'[w].next_expr = wires[w].next_expr
                /\ (wires[w].next_expr = NullExpr \/ w \notin {all_wires'[i] : i \in DOMAIN all_wires'})
                      => /\ wires'[w].committed_value = wires[w].committed_value
                         /\ wires'[w].committed_value = pre'[w]]_vars

\* a call without restore_state has returned: a register of the closure has
\* moved on, a wire of the closure without a registered definition and a
\* register outside the closure hold non-zero values, the ones they held
C21_Witness ==
    /\ pc = "done" /\ ~restore_state
    /\ \E w \in ClosureSet : wires[w].committed_value # pre[w]
    /\ \E u \in ClosureSet :
          /\ wires[u].next_expr = NullExpr
          /\ wires[u].committed_value # 0 /\ wires[u].committed_value = pre[u]
    /\ \E v \in Wires \ ClosureSet :
          /\ wires[v].next_expr # NullExpr
          /\ wires[v].committed_value # 0 /\ wires[v].committed_value = pre[v]

----------------------------------------------------------------------------
(* C22: two wires of one name.                                             *)

\* the closure wires named name, in the order of the walk
RECURSIVE Named(_, _)
Named(order, name) ==
    IF order = <<>> THEN <<>>
    ELSE (IF wires[Head(order)].name = name THEN <<Head(order)>> ELSE <<>>)
         \o Named(Tail(order), name)

\* the value of w in the cycle that started from the committed values V
ValueIn(w, V) ==
    IF wires[w].comb_expr # NullExpr THEN Meaning(wires[w].comb_expr, V).v ELSE V[w]

\* C22: when two distinct wires of the closure share a name, each is evaluated,
\* cached and committed as a wire of its own, and both are recorded in the one
\* entry of that name: per cycle the entry receives the value of each wire of
\* the name, in the order of the walk, so that for two wires it has
\* 2 * cycles values when simulate returns.
C22_SharedNameEntry ==
    pc = "done" =>
        /\ \A i \in DOMAIN result :
              LET ws == Named(all_wires, result[i].name)
              IN  /\ Len(result[i].values) = Len(ws) * cycles
                  /\ \A k \in 1..cycles, j \in 1..Len(ws) :
                        result[i].values[(k - 1) * Len(ws) + j] = ValueIn(ws[j], starts[k])
        /\ \A v, w \in ClosureSet :
              (v # w /\ wires[v].name = wires[w].name) =>
                  Len(HistoryOf(w)) = 2 * cycles
        /\ \A k \in 1..(cycles - 1), w \in ClosureSet :
              wires[w].next_expr # NullExpr =>
                  starts[k + 1][w] = Meaning(wires[w].next_expr, starts[k]).v

\* two wires of one name, one combinational and one not, were recorded in one
\* entry of 2 * MaxCycles values, with different values in each cycle: the
\* cached value of the one and the committed value of the other
C22_Witness ==
    /\ pc = "done" /\ cycles = MaxCycles
    /\ \E v, w \in ClosureSet :
          /\ v # w /\ wires[v].name = wires[w].name
          /\ Len(HistoryOf(w)) = 2 * cycles
          /\ \A k \in 1..cycles : HistoryOf(w)[2 * k - 1] # HistoryOf(w)[2 * k]
          /\ wires[v].comb_expr # NullExpr /\ v \in DOMAIN ctx.comb_cache
          /\ wires[w].comb_expr = NullExpr
          /\ ctx.comb_cache[v] # wires[w].committed_value

====
